---- MODULE Spec2Model ----
(***************************************************************************)
(* Schedule store, conflict detector, scheduler loop and job executor of   *)
(* src/interactive_scraper.py (class InteractiveScraper).                  *)
(*                                                                         *)
(* Time values.  A datetime is an integer count of minutes; the time of    *)
(* day of datetime t is t % 1440.  A time-of-day STRING ("09:00", "9:00")  *)
(* is the record [hh |-> digits before the colon, mm |-> digits after it], *)
(* so string equality is record equality and strptime / strftime are the   *)
(* conversions the code performs.  last_run is <<>> for "" and <<t>> for   *)
(* the formatted timestamp of datetime t.                                  *)
(***************************************************************************)
EXTENDS Integers, Sequences, FiniteSets, TLC

VARIABLES
    schedules,          \* self.schedules: the in-memory store, in dict order
    file,               \* multi_schedules.json: the JSON objects written to it
    file_state,         \* multi_schedules.json: "complete", "partial" or "missing"
    clock,              \* the wall clock, datetime.now(), in minutes
    second,             \* the wall clock: the seconds of the minute that have passed
    pc,                 \* where the process is: menu, tick, iter, exec_pre, exec_try, dead
    active_schedules,   \* start_scheduler: ids of the schedules the loop holds
    running_schedules,  \* start_scheduler: ids found currently_running at the tick's start
    idx,                \* start_scheduler: position of the for loop in active_schedules
    current_time,       \* start_scheduler: the tick's clock reading, a time string
    status,             \* start_scheduler: the loop's last printed decision, <<kind, id>>
    exec_id,            \* execute_schedule: id of the schedule being executed
    caller,             \* execute_schedule: "loop" or "manual"
    invocations,        \* execute_schedule: Job Runner invocations of this run, in order
    success_count,      \* execute_schedule: success_count
    reported,           \* execute_schedule: the printed completion report
    new_schedule,       \* check_schedule_conflicts: the candidate
    conflicts,          \* check_schedule_conflicts: the returned list
    returned            \* what the operation applied last has returned or printed

vars == <<schedules, file, file_state, clock, second, pc, active_schedules,
          running_schedules, idx, current_time, status, exec_id, caller, invocations, success_count,
          reported, new_schedule, conflicts, returned>>

loopVars == <<active_schedules, running_schedules, idx, current_time, status>>
execVars == <<exec_id, caller, invocations, success_count>>
checkVars == <<new_schedule, conflicts, returned>>

---------------------------------------------------------------------------
(* Bounds of the model *)

\* execute_schedule is not dispatched once total_runs has reached MaxRuns
MaxRuns == 2

\* the wall-clock instants the model observes: 10:00, 11:00, 11:30
Instants == {600, 660, 690}

LaterInstants(t) == {i \in Instants : i >= t}

NextInstants(t) ==
    {i \in Instants : i >= t /\ \A j \in Instants : j > t => i <= j}

---------------------------------------------------------------------------
(* Time strings *)

DayMinutes == 24 * 60

DigitsValue(ds) == IF Len(ds) = 1 THEN ds[1] ELSE 10 * ds[1] + ds[2]

TimeStr(h1, h0, m1, m0) == [hh |-> <<h1, h0>>, mm |-> <<m1, m0>>]

\* the empty string: no digits, no colon
EmptyStr == [hh |-> <<>>, mm |-> <<>>]

\* datetime.strptime(time_str, "%H:%M") succeeds: %H is one or two digits up
\* to 23, %M one or two digits up to 59
validate_time_format(time_str) ==
    /\ Len(time_str.hh) \in {1, 2}
    /\ Len(time_str.mm) \in {1, 2}
    /\ DigitsValue(time_str.hh) <= 23
    /\ DigitsValue(time_str.mm) <= 59

\* datetime.strptime(time_str, "%H:%M"), as minutes since the day began
strptime(time_str) == 60 * DigitsValue(time_str.hh) + DigitsValue(time_str.mm)

\* datetime.strftime("%H:%M"): two digits each, zero padded
strftime(t) ==
    LET d == t % DayMinutes
        h == d \div 60
        m == d % 60
    IN  [hh |-> <<h \div 10, h % 10>>, mm |-> <<m \div 10, m % 10>>]

---------------------------------------------------------------------------
(* Schedule records and the store *)

Max(a, b) == IF a >= b THEN a ELSE b

\* int(len(search_terms) * limit_per_run * 0.1) + max(5, len(search_terms) * 2);
\* int() cuts the fraction off, towards zero
estimate_execution_time(search_terms, limit_per_run) ==
    LET total_contacts == Len(search_terms) * limit_per_run
        estimated_minutes == IF total_contacts >= 0
                             THEN total_contacts \div 10
                             ELSE 0 - ((0 - total_contacts) \div 10)
    IN  estimated_minutes + Max(5, Len(search_terms) * 2)

\* Schedule(...) with the dataclass defaults for the fields not given
Schedule(id, name, terms, start, interval, limit, recurring, auto) ==
    [id |-> id, name |-> name, search_terms |-> terms, start_time |-> start,
     duration_minutes |-> interval, limit_per_run |-> limit,
     skip_duplicates |-> TRUE, is_recurring |-> recurring, is_active |-> TRUE,
     last_run |-> <<>>, total_runs |-> 0,
     estimated_duration_minutes |-> estimate_execution_time(terms, limit),
     auto_sequence |-> auto, currently_running |-> FALSE]

Ids(store) == {store[i].id : i \in 1..Len(store)}

IndexOf(store, id) == CHOOSE i \in 1..Len(store) : store[i].id = id

Get(store, id) == store[IndexOf(store, id)]

\* self.schedules[s.id] = s : a dict keeps the position of a key it already has
DictSet(store, s) ==
    IF s.id \in Ids(store)
    THEN [store EXCEPT ![IndexOf(store, s.id)] = s]
    ELSE Append(store, s)

\* the fields of Schedule that hold a bool
BoolFields == {"skip_duplicates", "is_recurring", "is_active", "auto_sequence",
               "currently_running"}

\* JsonObject that does not write last_run
JsonObjectWithoutLastRun(schedule) ==
    [k \in DOMAIN schedule \ {"last_run"} |->
        IF k \in BoolFields
        THEN (IF schedule[k] THEN "true" ELSE "false")
        ELSE schedule[k]]

\* json.dump of asdict(schedule): a bool is written as the token true or
\* false; numbers, strings and lists of strings are written as they are
JsonObject(schedule) ==
    [k \in DOMAIN schedule |->
        IF k \in BoolFields
        THEN (IF schedule[k] THEN "true" ELSE "false")
        ELSE schedule[k]]

\* the fields of Schedule, and those of them that have no default
ScheduleFields ==
    {"id", "name", "search_terms", "start_time", "duration_minutes",
     "limit_per_run", "skip_duplicates", "is_recurring", "is_active", "last_run",
     "total_runs", "estimated_duration_minutes", "auto_sequence",
     "currently_running"}

RequiredFields ==
    {"id", "name", "search_terms", "start_time", "duration_minutes",
     "limit_per_run", "skip_duplicates", "is_recurring", "is_active"}

\* the defaults of the dataclass, lines 29-33, as JSON values
FieldDefaults ==
    [last_run |-> <<>>, total_runs |-> 0, estimated_duration_minutes |-> 15,
     auto_sequence |-> "false", currently_running |-> "false"]

\* Schedule(**schedule_data) raises TypeError on a missing required field and
\* on a key that is not a field; the values are not looked at
ValidObject(schedule_data) ==
    /\ RequiredFields \subseteq DOMAIN schedule_data
    /\ DOMAIN schedule_data \subseteq ScheduleFields

\* Schedule(**schedule_data) on an object json.load has read
FromJsonObject(schedule_data) ==
    [k \in ScheduleFields |->
        LET value == IF k \in DOMAIN schedule_data
                     THEN schedule_data[k] ELSE FieldDefaults[k]
        IN  IF k \in BoolFields THEN value = "true" ELSE value]

RECURSIVE LoadFrom(_, _)
LoadFrom(data, store) ==
    IF data = <<>> THEN store
    ELSE LoadFrom(Tail(data), DictSet(store, FromJsonObject(Head(data))))

\* load_schedules that reads the objects a cut file still holds
load_schedules_salvaging(state, f, store) ==
    IF state = "missing" THEN store ELSE LoadFrom(f, <<>>)

\* load_schedules on a store that holds store: nothing is done when the file
\* does not exist; json.load raises on a file that is not a complete JSON
\* document, Schedule(**schedule_data) on an object it does not accept, and
\* the handler leaves {}; otherwise each object becomes a Schedule keyed by
\* its id, every field taken as the file records it
load_schedules(state, f, store) ==
    IF state = "missing" THEN store
    ELSE IF state = "partial" THEN <<>>
    ELSE IF \E i \in 1..Len(f) : ~ValidObject(f[i]) THEN <<>>
    ELSE LoadFrom(f, <<>>)

\* save_schedules when it succeeds: the file holds
\* [asdict(schedule) for schedule in self.schedules.values()]
save_schedules(store) == [i \in 1..Len(store) |-> JsonObject(store[i])]

RECURSIVE SelectIds(_, _)
SelectIds(store, keep) ==
    IF store = <<>> THEN <<>>
    ELSE IF keep[Head(store).id]
         THEN <<Head(store).id>> \o SelectIds(Tail(store), keep)
         ELSE SelectIds(Tail(store), keep)

\* [s for s in self.schedules.values() if s.is_active]
ActiveIds(store) == SelectIds(store, [id \in Ids(store) |-> Get(store, id).is_active])

---------------------------------------------------------------------------
(* Conflict detector *)

\* WindowsOverlap with the first comparison only
WindowsOverlapForward(schedule1, schedule2) ==
    /\ validate_time_format(schedule1.start_time)
    /\ validate_time_format(schedule2.start_time)
    /\ LET time1 == strptime(schedule1.start_time)
           time2 == strptime(schedule2.start_time)
           end1 == time1 + schedule1.estimated_duration_minutes
       IN  time1 <= time2 /\ time2 < end1

\* WindowsOverlap with the ends of the windows included
WindowsOverlapClosed(schedule1, schedule2) ==
    /\ validate_time_format(schedule1.start_time)
    /\ validate_time_format(schedule2.start_time)
    /\ LET time1 == strptime(schedule1.start_time)
           time2 == strptime(schedule2.start_time)
           end1 == time1 + schedule1.estimated_duration_minutes
           end2 == time2 + schedule2.estimated_duration_minutes
       IN  \/ (time1 <= time2 /\ time2 <= end1)
           \/ (time2 <= time1 /\ time1 <= end2)

\* (time1 <= time2 < end1) or (time2 <= time1 < end2), the ends being
\* start + timedelta(minutes=estimated_duration_minutes); a start time that
\* strptime rejects raises, and the bare except leaves "no overlap"
WindowsOverlap(schedule1, schedule2) ==
    /\ validate_time_format(schedule1.start_time)
    /\ validate_time_format(schedule2.start_time)
    /\ LET time1 == strptime(schedule1.start_time)
           time2 == strptime(schedule2.start_time)
           end1 == time1 + schedule1.estimated_duration_minutes
           end2 == time2 + schedule2.estimated_duration_minutes
       IN  \/ (time1 <= time2 /\ time2 < end1)
           \/ (time2 <= time1 /\ time1 < end2)

\* check_execution_overlap: the overlap message naming schedule1, or None (<<>>)
check_execution_overlap(schedule1, schedule2) ==
    IF WindowsOverlap(schedule1, schedule2)
    THEN <<[kind |-> "Execution overlap", name |-> schedule1.name]>>
    ELSE <<>>

\* ConflictsWith without the is_active test of lines 836-837
ConflictsWithInactive(existing, new) ==
    (IF existing.start_time = new.start_time
     THEN <<[kind |-> "Direct time conflict", name |-> existing.name]>>
     ELSE <<>>)
    \o check_execution_overlap(existing, new)

\* ConflictsWith with the overlap test as the else branch of the direct test
ConflictsWithEither(existing, new) ==
    IF ~existing.is_active THEN <<>>
    ELSE IF existing.start_time = new.start_time
         THEN <<[kind |-> "Direct time conflict", name |-> existing.name]>>
         ELSE check_execution_overlap(existing, new)

\* the records one stored schedule adds to the conflicts list
ConflictsWith(existing, new) ==
    IF ~existing.is_active THEN <<>>
    ELSE (IF existing.start_time = new.start_time
          THEN <<[kind |-> "Direct time conflict", name |-> existing.name]>>
          ELSE <<>>)
         \o check_execution_overlap(existing, new)

RECURSIVE ConflictsOver(_, _)
ConflictsOver(store, new) ==
    IF store = <<>> THEN <<>>
    ELSE ConflictsWith(Head(store), new) \o ConflictsOver(Tail(store), new)

\* check_schedule_conflicts(new_schedule): every entry of self.schedules is
\* examined, in dict order
check_schedule_conflicts(store, new) == ConflictsOver(store, new)

---------------------------------------------------------------------------
(* Datetimes.  A datetime counts the minutes since 00:00 of 1900-01-01, the  *)
(* date strptime("%H:%M") gives; datetime.now() lies TodayDays days later.   *)

\* the days from 1900-01-01 to today.  Some 46,000 in fact: the loop of
\* find_slots_after_conflicts tests the same half-hour marks every day it
\* walks through, so it has its four slots within four full days or never
TodayDays == 5

\* datetime.now(), the clock counting the minutes of today
Now(minutes_today) == TodayDays * DayMinutes + minutes_today

Hour(t) == (t % DayMinutes) \div 60

Minute(t) == t % 60

\* t.replace(minute=m, second=0)
ReplaceMinute(t, m) == t - Minute(t) + m

\* t.replace(hour=h, minute=m, second=0)
ReplaceHourMinute(t, h, m) == t - (t % DayMinutes) + 60 * h + m

SetMax(S) == CHOOSE x \in S : \A y \in S : y <= x

SetMin(S) == CHOOSE x \in S : \A y \in S : x <= y

Abs(n) == IF n >= 0 THEN n ELSE 0 - n

\* Python's None
None == <<>>

---------------------------------------------------------------------------
(* Sequencer: calculate_sequential_time, lines 1098-1126 *)

\* the window ends of the active schedules whose start time parses
ActiveEnds(store) ==
    { strptime(store[i].start_time) + store[i].estimated_duration_minutes :
      i \in { j \in 1..Len(store) : /\ store[j].is_active
                                    /\ validate_time_format(store[j].start_time) } }

\* calculate_sequential_time with the inactive schedules counted as well
calculate_sequential_time_all(store) ==
    LET ends == { strptime(store[i].start_time) + store[i].estimated_duration_minutes :
                  i \in { j \in 1..Len(store) : validate_time_format(store[j].start_time) } }
    IN  IF ends = {} THEN None
        ELSE LET sequential_time == SetMax(ends) + 10
             IN  IF Hour(sequential_time) >= 23
                 THEN strftime(ReplaceHourMinute(sequential_time, 8, 0) + DayMinutes)
                 ELSE strftime(sequential_time)

\* calculate_sequential_time that returns None where the rollover applies
calculate_sequential_time_no_rollover(store) ==
    IF ActiveEnds(store) = {} THEN None
    ELSE LET sequential_time == SetMax(ActiveEnds(store)) + 10
         IN  IF Hour(sequential_time) >= 23
             THEN None
             ELSE strftime(sequential_time)

\* calculate_sequential_time: the new_schedule argument is never read
calculate_sequential_time(store) ==
    IF ActiveEnds(store) = {} THEN None
    ELSE LET sequential_time == SetMax(ActiveEnds(store)) + 10
         IN  IF Hour(sequential_time) >= 23
             THEN strftime(ReplaceHourMinute(sequential_time, 8, 0) + DayMinutes)
             ELSE strftime(sequential_time)

---------------------------------------------------------------------------
(* Suggester: get_safe_time_suggestions and its strategies, lines 866-1096 *)

\* check_schedule_conflicts_between(schedule1, schedule2): the list of kinds
check_schedule_conflicts_between(schedule1, schedule2) ==
    (IF schedule1.start_time = schedule2.start_time
     THEN <<"Direct time conflict">> ELSE <<>>)
    \o (IF WindowsOverlap(schedule1, schedule2)
        THEN <<"Execution overlap">> ELSE <<>>)

\* the temporary schedule of is_time_slot_safe, lines 1059-1070
TempSchedule(test_time, new) ==
    [new EXCEPT !.id = "temp", !.name = "temp", !.start_time = test_time,
                !.is_active = TRUE, !.last_run = <<>>, !.total_runs = 0,
                !.auto_sequence = FALSE, !.currently_running = FALSE]

\* is_time_slot_safe that looks for a stored schedule at the same start time only
is_time_slot_safe_direct(store, test_time, new) ==
    ~\E i \in 1..Len(store) :
        store[i].is_active /\ store[i].start_time = test_time

\* is_time_slot_safe(test_time, new_schedule)
is_time_slot_safe(store, test_time, new) ==
    Len(check_schedule_conflicts(store, TempSchedule(test_time, new))) = 0

\* lines 874-878: the active stored schedules the candidate conflicts with
ConflictingSchedules(store, new) ==
    LET conflicting(existing) ==
            /\ existing.is_active
            /\ check_schedule_conflicts_between(new, existing) # <<>>
    IN  SelectSeq(store, conflicting)

\* lines 955-975: the while loop of find_slots_before_conflicts
RECURSIVE BeforeLoop(_, _, _, _, _)
BeforeLoop(checking_time, before_slots, latest_start, store, new) ==
    IF ~(checking_time <= latest_start /\ Len(before_slots) < 4)
    THEN before_slots
    ELSE LET minute == Minute(checking_time)
             rounded_minute == IF minute < 15 THEN 0
                               ELSE IF minute < 45 THEN 30 ELSE 0
             moved == IF minute < 45 THEN checking_time ELSE checking_time + 60
             time_str == strftime(ReplaceMinute(moved, rounded_minute))
         IN  BeforeLoop(moved + 30,
                        IF is_time_slot_safe(store, time_str, new)
                        THEN Append(before_slots, time_str) ELSE before_slots,
                        latest_start, store, new)

\* find_slots_before_conflicts(new_schedule, conflicting_schedules, current_time):
\* latest_start is a datetime of 1900-01-01, current_time is datetime.now()
find_slots_before_conflicts(store, new, conflicting_schedules, now) ==
    LET starts == { strptime(conflicting_schedules[i].start_time) :
                    i \in { j \in 1..Len(conflicting_schedules) :
                            validate_time_format(conflicting_schedules[j].start_time) } }
    IN  IF conflicting_schedules = <<>> \/ starts = {} THEN <<>>
        ELSE LET earliest_conflict == SetMin(starts)
                 latest_start == earliest_conflict
                                   - (new.estimated_duration_minutes + 10)
                 current_plus_buffer == now + 5
             IN  IF latest_start > current_plus_buffer
                 THEN BeforeLoop(Max(current_plus_buffer, ReplaceMinute(now, 0)),
                                 <<>>, latest_start, store, new)
                 ELSE <<>>

\* lines 1009-1028: the while loop of find_slots_after_conflicts.  Pass k of
\* the loop has checking_time = earliest_after + 30 k and appends the rounded
\* time when it is safe; the loop ends at the fourth slot or when
\* checking_time has passed end_of_day.  A pass that finds a minute of 45 or
\* more adds an hour and continues: the minute stays, so no later pass appends
\* anything.  The minute of pass k is that of pass 0 (k even) or of pass 1
AfterLoop(earliest_after, end_of_day, store, new) ==
    LET checking_time(k) == earliest_after + 30 * k
        time_str(k) ==
            strftime(ReplaceMinute(checking_time(k),
                                   IF Minute(checking_time(k)) < 15 THEN 0 ELSE 30))
        passes == { k \in 0..((end_of_day - earliest_after) \div 30) :
                    \A j \in {0, 1} : j <= k => Minute(checking_time(j)) < 45 }
        safe == {k \in passes : is_time_slot_safe(store, time_str(k), new)}
        nth(n) == CHOOSE k \in safe : Cardinality({j \in safe : j < k}) = n - 1
    IN  [n \in 1..(IF Cardinality(safe) < 4 THEN Cardinality(safe) ELSE 4) |->
            time_str(nth(n))]

\* find_slots_after_conflicts(new_schedule, conflicting_schedules): latest_end
\* is a datetime of 1900-01-01, end_of_day is 22:00 of datetime.now()'s day
find_slots_after_conflicts(store, new, conflicting_schedules, now) ==
    LET ends == { strptime(conflicting_schedules[i].start_time)
                    + conflicting_schedules[i].estimated_duration_minutes :
                  i \in { j \in 1..Len(conflicting_schedules) :
                          validate_time_format(conflicting_schedules[j].start_time) } }
    IN  IF conflicting_schedules = <<>> \/ ends = {} THEN <<>>
        ELSE LET latest_end == SetMax(ends)
                 earliest_after == latest_end + 10
                 end_of_day == ReplaceHourMinute(now, 22, 0)
             IN  AfterLoop(earliest_after, end_of_day, store, new)

\* find_fallback_slots(new_schedule, current_time)
find_fallback_slots(store, new, now) ==
    LET base_times == << now + 60, now + 120, now + 180,
                         IF Hour(now) > 7 THEN now - 60 ELSE now + 240 >>
        time_str(base_time) ==
            strftime(ReplaceMinute(base_time, IF Minute(base_time) < 30 THEN 0 ELSE 30))
        kept(base_time) ==
            /\ 6 <= Hour(base_time)
            /\ Hour(base_time) <= 22
            /\ is_time_slot_safe(store, time_str(base_time), new)
        chosen == SelectSeq(base_times, kept)
    IN  [k \in 1..Len(chosen) |-> time_str(chosen[k])]

\* Dedupe that keeps every element
KeepDuplicates(seq) == seq

\* list(dict.fromkeys(seq)): the first occurrence of each element, in order
RECURSIVE Dedupe(_)
Dedupe(seq) ==
    IF seq = <<>> THEN <<>>
    ELSE LET init == Dedupe(SubSeq(seq, 1, Len(seq) - 1))
             last == seq[Len(seq)]
         IN  IF \E k \in 1..Len(init) : init[k] = last
             THEN init ELSE Append(init, last)

\* time_distance(time_str) of sort_by_time_proximity
time_distance(time_str, current_time_str) ==
    IF ~validate_time_format(time_str) THEN 9999
    ELSE LET test_time == strptime(time_str)
             now_time == strptime(current_time_str)
             diff == Abs(test_time - now_time)
         IN  IF test_time > now_time THEN diff ELSE diff + 30

\* sorted(time_list, key=time_distance): a stable sort
RECURSIVE SortedByDistance(_, _)
SortedByDistance(time_list, current_time_str) ==
    IF time_list = <<>> THEN <<>>
    ELSE LET init == SortedByDistance(SubSeq(time_list, 1, Len(time_list) - 1),
                                      current_time_str)
             last == time_list[Len(time_list)]
             key(x) == time_distance(x, current_time_str)
             n == Cardinality({k \in 1..Len(init) : key(init[k]) <= key(last)})
         IN  SubSeq(init, 1, n) \o <<last>> \o SubSeq(init, n + 1, Len(init))

\* sort_by_time_proximity(time_list, current_time_str)
sort_by_time_proximity(time_list, current_time_str) ==
    IF validate_time_format(current_time_str)
    THEN SortedByDistance(time_list, current_time_str)
    ELSE time_list

\* get_safe_time_suggestions(new_schedule), now being datetime.now()
get_safe_time_suggestions(store, new, now) ==
    LET current_hour_minute == strftime(now)
        conflicting_schedules == ConflictingSchedules(store, new)
        before_slots == find_slots_before_conflicts(store, new, conflicting_schedules, now)
        after_slots == find_slots_after_conflicts(store, new, conflicting_schedules, now)
        found == before_slots \o after_slots
        safe_times == IF Len(found) < 3
                      THEN found \o find_fallback_slots(store, new, now)
                      ELSE found
        sorted == sort_by_time_proximity(Dedupe(safe_times), current_hour_minute)
    IN  SubSeq(sorted, 1, IF Len(sorted) < 8 THEN Len(sorted) ELSE 8)

---------------------------------------------------------------------------
(* Scheduler loop: the due check and the conflict-with-running check *)

\* schedules_would_conflict_now without its currently_running test
schedules_would_conflict_now_by_window(schedule1, schedule2) ==
    WindowsOverlap(schedule1, schedule2)

\* schedules_would_conflict_now(schedule1, schedule2)
schedules_would_conflict_now(schedule1, schedule2) ==
    IF schedule2.currently_running THEN TRUE
    ELSE WindowsOverlap(schedule1, schedule2)

\* run_type with the recurring comparison strict
run_type_strict(schedule, reading, now) ==
    IF schedule.total_runs = 0 /\ reading = schedule.start_time
    THEN "FIRST RUN"
    ELSE IF schedule.is_recurring /\ schedule.last_run # <<>>
         THEN (IF now > schedule.last_run[1] + schedule.duration_minutes
               THEN "RECURRING RUN" ELSE "")
         ELSE ""

\* run_type whose first branch fires at the start time whatever total_runs is
run_type_daily(schedule, reading, now) ==
    IF reading = schedule.start_time
    THEN "FIRST RUN"
    ELSE IF schedule.is_recurring /\ schedule.last_run # <<>>
         THEN (IF now >= schedule.last_run[1] + schedule.duration_minutes
               THEN "RECURRING RUN" ELSE "")
         ELSE ""

\* the due check of one loop iteration: the run_type, or "" when should_run
\* stays False; now is datetime.now() at the check, reading is the tick's
\* current_time string
run_type(schedule, reading, now) ==
    IF schedule.total_runs = 0 /\ reading = schedule.start_time
    THEN "FIRST RUN"
    ELSE IF schedule.is_recurring /\ schedule.last_run # <<>>
         THEN (IF now >= schedule.last_run[1] + schedule.duration_minutes
               THEN "RECURRING RUN" ELSE "")
         ELSE ""

\* the loop's decision for a schedule it examines
Decision(store, schedule, running, reading, now) ==
    IF schedule.currently_running THEN "SKIP"
    ELSE IF run_type(schedule, reading, now) = "" THEN "NOT DUE"
    ELSE IF schedule.auto_sequence /\ running # <<>> THEN "WAITING"
    ELSE IF \E k \in 1..Len(running) :
                schedules_would_conflict_now(schedule, Get(store, running[k]))
         THEN "QUEUED"
    ELSE run_type(schedule, reading, now)

---------------------------------------------------------------------------
(* Job executor *)

\* line 1239: schedule.currently_running = True
MarkRunning(store, id) ==
    [store EXCEPT ![IndexOf(store, id)].currently_running = TRUE]

\* the finally block: lines 1275-1283
FinallyUpdate(store, id, now) ==
    [store EXCEPT ![IndexOf(store, id)] =
        [@ EXCEPT !.currently_running = FALSE,
                  !.last_run = <<now>>,
                  !.total_runs = @ + 1,
                  !.auto_sequence = FALSE]]

\* what the run has printed: the per-term result lines (1267 / 1269 / 1271)
\* and the completion report, lines 1290-1292
Report(store, id, invs, successes) ==
    [results |-> [k \in 1..Len(invs) |-> invs[k].ok],
     success |-> successes,
     total |-> Len(Get(store, id).search_terms),
     total_runs |-> Get(store, id).total_runs]

\* what subprocess.run can do for one term
RunnerOutcomes == {"returncode 0", "returncode 1", "exception"}

---------------------------------------------------------------------------
(* Initial state: the process has been constructed over a stored file *)

T1000 == TimeStr(1, 0, 0, 0)
T1100 == TimeStr(1, 1, 0, 0)

\* "10:60": rejected by validate_time_format
BadTime == TimeStr(1, 0, 6, 0)

\* what the operator may type as a new start time in edit_schedule
EditTimes == {T1000, T1100, BadTime}

\* files written by earlier sessions: schedule s1 (three terms, 10 contacts
\* each) at 10:00 and schedule s2 (one term, 100 contacts) at 10:00 or 11:00,
\* each one-time or recurring, none of them run yet
InitFiles ==
    { save_schedules(
        << Schedule("s1", "A", <<"a1", "a2", "a3">>, T1000, iA, 10, iA > 0, FALSE),
           Schedule("s2", "B", <<"b1">>, sB, iB, 100, iB > 0, aB) >>) :
      iA \in {0, 60}, sB \in {T1000, T1100}, iB \in {0, 90}, aB \in BOOLEAN }

IdleLoop ==
    /\ active_schedules = <<>>
    /\ running_schedules = <<>>
    /\ idx = 0
    /\ current_time = EmptyStr
    /\ status = <<>>

IdleExec ==
    /\ exec_id = ""
    /\ caller = ""
    /\ invocations = <<>>
    /\ success_count = 0

Init ==
    /\ file \in InitFiles
    /\ file_state = "complete"
    /\ schedules = load_schedules(file_state, file, <<>>)
    /\ clock = 600
    /\ second = 0
    /\ pc = "menu"
    /\ IdleLoop
    /\ IdleExec
    /\ reported = <<>>
    /\ new_schedule = <<>>
    /\ conflicts = <<>>
    /\ returned = <<>>

\* the locals of start_scheduler and of execute_schedule die with the call
ResetLoop ==
    /\ active_schedules' = <<>>
    /\ running_schedules' = <<>>
    /\ idx' = 0
    /\ current_time' = EmptyStr
    /\ status' = <<>>

ResetExec ==
    /\ exec_id' = ""
    /\ caller' = ""
    /\ invocations' = <<>>
    /\ success_count' = 0

---------------------------------------------------------------------------
(* Management operations, from the menu *)

\* toggle_schedule, lines 1460-1467
toggle_schedule ==
    /\ pc = "menu"
    /\ \E i \in 1..Len(schedules) :
          schedules' = [schedules EXCEPT ![i].is_active = ~@]
    /\ file' = save_schedules(schedules')
    /\ file_state' = "complete"
    /\ UNCHANGED <<second, clock, pc, loopVars, execVars, reported, checkVars>>

\* edit_schedule that stores the new start time without validating it
edit_schedule_unvalidated ==
    /\ pc = "menu"
    /\ \E i \in 1..Len(schedules), new_time \in EditTimes :
          schedules' = [schedules EXCEPT ![i].start_time = new_time]
    /\ file' = save_schedules(schedules')
    /\ file_state' = "complete"
    /\ UNCHANGED <<second, clock, pc, loopVars, execVars, reported, checkVars>>

\* edit_schedule, lines 1391-1409: the name is kept, the start time is
\* replaced when it validates, and the store is saved either way
edit_schedule ==
    /\ pc = "menu"
    /\ \E i \in 1..Len(schedules), new_time \in EditTimes :
          schedules' = IF validate_time_format(new_time)
                       THEN [schedules EXCEPT ![i].start_time = new_time]
                       ELSE schedules
    /\ file' = save_schedules(schedules')
    /\ file_state' = "complete"
    /\ UNCHANGED <<second, clock, pc, loopVars, execVars, reported, checkVars>>

---------------------------------------------------------------------------
(* Job executor: execute_schedule, lines 1236-1307 *)

\* the call and its first statement: currently_running = True
EnterExecute(id, from) ==
    /\ Get(schedules, id).total_runs < MaxRuns
    /\ schedules' = MarkRunning(schedules, id)
    /\ exec_id' = id
    /\ caller' = from
    /\ invocations' = <<>>
    /\ success_count' = 0
    /\ reported' = <<>>
    /\ pc' = "exec_pre"

\* manual_schedule_run, lines 1322-1340
manual_schedule_run ==
    /\ pc = "menu"
    /\ schedules # <<>>
    /\ \E k \in 1..Len(ActiveIds(schedules)) :
          EnterExecute(ActiveIds(schedules)[k], "manual")
    /\ UNCHANGED <<second, file, file_state, clock, loopVars, checkVars>>

\* ExecSaveRunning without the save_schedules() of line 1240
ExecSaveRunningUnsaved ==
    /\ pc = "exec_pre"
    /\ pc' = "exec_try"
    /\ UNCHANGED <<second, schedules, file, file_state, clock, loopVars, execVars,
                   reported, checkVars>>

\* line 1240: save_schedules(), still outside the try block
ExecSaveRunning ==
    /\ pc = "exec_pre"
    /\ file' = save_schedules(schedules)
    /\ file_state' = "complete"
    /\ pc' = "exec_try"
    /\ UNCHANGED <<second, schedules, clock, loopVars, execVars, reported, checkVars>>

\* lines 1255-1271: one Job Runner invocation; it takes as long as it takes
ExecRunTerm ==
    /\ pc = "exec_try"
    /\ Len(invocations) < Len(Get(schedules, exec_id).search_terms)
    /\ \E outcome \in RunnerOutcomes :
          LET s == Get(schedules, exec_id)
              ok == (outcome = "returncode 0")
          IN  /\ invocations' = Append(invocations,
                    [term |-> s.search_terms[Len(invocations) + 1],
                     limit |-> s.limit_per_run, ok |-> ok])
              /\ success_count' = IF ok THEN success_count + 1 ELSE success_count
    /\ clock' \in LaterInstants(clock)
    /\ UNCHANGED <<second, schedules, file, file_state, pc, loopVars,
                   exec_id, caller, reported, checkVars>>

\* ExecFinish that also ends the run at the first term that failed
ExecFinishOnFailure ==
    /\ pc = "exec_try"
    /\ \/ Len(invocations) = Len(Get(schedules, exec_id).search_terms)
       \/ (invocations # <<>> /\ ~invocations[Len(invocations)].ok)
    /\ schedules' = FinallyUpdate(schedules, exec_id, clock)
    /\ file' = save_schedules(schedules')
    /\ file_state' = "complete"
    /\ reported' = Report(schedules', exec_id, invocations, success_count)
    /\ IF caller = "loop"
       THEN /\ pc' = "iter"
            /\ idx' = idx + 1
            /\ UNCHANGED <<active_schedules, running_schedules, current_time, status>>
       ELSE /\ pc' = "menu"
            /\ UNCHANGED loopVars
    /\ ResetExec
    /\ UNCHANGED <<second, clock, checkVars>>

\* lines 1273-1292: every term done, the finally block, the report, the return
ExecFinish ==
    /\ pc = "exec_try"
    /\ Len(invocations) = Len(Get(schedules, exec_id).search_terms)
    /\ schedules' = FinallyUpdate(schedules, exec_id, clock)
    /\ file' = save_schedules(schedules')
    /\ file_state' = "complete"
    /\ reported' = Report(schedules', exec_id, invocations, success_count)
    /\ IF caller = "loop"
       THEN /\ pc' = "iter"
            /\ idx' = idx + 1
            /\ UNCHANGED <<active_schedules, running_schedules, current_time, status>>
       ELSE /\ pc' = "menu"
            /\ UNCHANGED loopVars
    /\ ResetExec
    /\ UNCHANGED <<second, clock, checkVars>>

---------------------------------------------------------------------------
(* Scheduler loop: start_scheduler, lines 1150-1234 *)

\* start_scheduler that polls every schedule of the store
start_scheduler_every_schedule ==
    /\ pc = "menu"
    /\ ActiveIds(schedules) # <<>>
    /\ active_schedules' = [k \in 1..Len(schedules) |-> schedules[k].id]
    /\ pc' = "tick"
    /\ UNCHANGED <<second, schedules, file, file_state, clock, running_schedules, idx, current_time,
                   status, execVars, reported, checkVars>>

start_scheduler ==
    /\ pc = "menu"
    /\ ActiveIds(schedules) # <<>>
    /\ active_schedules' = ActiveIds(schedules)
    /\ pc' = "tick"
    /\ UNCHANGED <<second, schedules, file, file_state, clock, running_schedules, idx, current_time,
                   status, execVars, reported, checkVars>>

\* lines 1173-1176: the tick reads the clock and collects the running schedules
TickBegin ==
    /\ pc = "tick"
    /\ current_time' = strftime(clock)
    /\ running_schedules' =
          SelectIds([k \in 1..Len(active_schedules) |-> Get(schedules, active_schedules[k])],
                    [id \in Ids(schedules) |-> Get(schedules, id).currently_running])
    /\ idx' = 1
    /\ pc' = "iter"
    /\ UNCHANGED <<second, schedules, file, file_state, clock, active_schedules, status, execVars,
                   reported, checkVars>>

\* lines 1178-1223: the loop body for one schedule
LoopIter ==
    /\ pc = "iter"
    /\ idx <= Len(active_schedules)
    /\ LET s == Get(schedules, active_schedules[idx])
           d == Decision(schedules, s, running_schedules, current_time, clock)
       IN  /\ status' = <<d, s.id>>
           /\ IF d \in {"FIRST RUN", "RECURRING RUN"}
              THEN /\ EnterExecute(s.id, "loop")
                   /\ UNCHANGED idx
              ELSE /\ idx' = idx + 1
                   /\ UNCHANGED <<schedules, pc, execVars, reported>>
    /\ UNCHANGED <<second, file, file_state, clock, active_schedules,
                   running_schedules, current_time,
                   checkVars>>

\* lines 1225-1229: the for loop is over; time.sleep(1).  The loop polls every
\* second, so the clock leaves an instant only after a tick has read it
LoopSleep ==
    /\ pc = "iter"
    /\ idx > Len(active_schedules)
    /\ clock' \in IF current_time = strftime(clock)
                  THEN NextInstants(clock) \cup {clock}
                  ELSE {clock}
    /\ pc' = "tick"
    /\ UNCHANGED <<second, schedules, file, file_state, loopVars, execVars, reported, checkVars>>

---------------------------------------------------------------------------
(* The operator's interrupt (KeyboardInterrupt), and the process's death *)

\* Ctrl+C in the loop, outside execute_schedule: lines 1231-1234
InterruptLoop ==
    /\ pc \in {"tick", "iter"}
    /\ pc' = "menu"
    /\ ResetLoop
    /\ UNCHANGED <<second, schedules, file, file_state, clock, execVars, reported, checkVars>>

\* Ctrl+C within lines 1240-1252: after currently_running = True, before the
\* try statement; no finally block is on the stack.  start_scheduler's except
\* KeyboardInterrupt (1231) or manual_schedule_run's bare except (1343) ends it
InterruptBeforeTry ==
    /\ pc = "exec_pre"
    /\ pc' = "menu"
    /\ ResetLoop
    /\ ResetExec
    /\ UNCHANGED <<second, schedules, file, file_state, clock, reported, checkVars>>

\* Ctrl+C within the try block: except Exception does not catch it, the
\* finally block runs, and the interrupt goes on to the caller's handler
InterruptInTry ==
    /\ pc = "exec_try"
    /\ schedules' = FinallyUpdate(schedules, exec_id, clock)
    /\ file' = save_schedules(schedules')
    /\ file_state' = "complete"
    /\ pc' = "menu"
    /\ ResetLoop
    /\ ResetExec
    /\ UNCHANGED <<second, clock, reported, checkVars>>

\* the process is killed (SIGKILL, power loss): its memory is gone
Kill ==
    /\ pc # "dead"
    /\ pc' = "dead"
    /\ schedules' = <<>>
    /\ ResetLoop
    /\ ResetExec
    /\ reported' = <<>>
    /\ UNCHANGED <<second, file, file_state, clock, checkVars>>

\* a new process: __init__ (lines 47-48) sets {} and calls load_schedules
Restart ==
    /\ pc = "dead"
    /\ schedules' = load_schedules(file_state, file, <<>>)
    /\ pc' = "menu"
    /\ UNCHANGED <<second, file, file_state, clock, loopVars, execVars, reported, checkVars>>

\* time passes while the process waits for input at the menu, or is dead
ClockAdvance ==
    /\ pc \in {"menu", "dead"}
    /\ clock' \in NextInstants(clock) \ {clock}
    /\ UNCHANGED <<second, schedules, file, file_state, pc, loopVars,
                   execVars, reported, checkVars>>

Next ==
    \/ toggle_schedule
    \/ edit_schedule
    \/ manual_schedule_run
    \/ ExecSaveRunning
    \/ ExecRunTerm
    \/ ExecFinish
    \/ start_scheduler
    \/ TickBegin
    \/ LoopIter
    \/ LoopSleep
    \/ InterruptLoop
    \/ InterruptBeforeTry
    \/ InterruptInTry
    \/ Kill
    \/ Restart
    \/ ClockAdvance

Spec == Init /\ [][Next]_vars

---------------------------------------------------------------------------
(* The same process when the file can be lost: something other than the     *)
(* program deletes multi_schedules.json or cuts it short                     *)

DeleteFile ==
    /\ file_state # "missing"
    /\ file_state' = "missing"
    /\ file' = <<>>
    /\ UNCHANGED <<schedules, clock, second, pc, loopVars, execVars, reported,
                   checkVars>>

\* what is left is not a JSON document: the objects before the cut
TruncateFile ==
    /\ file_state = "complete"
    /\ file # <<>>
    /\ file_state' = "partial"
    /\ file' = SubSeq(file, 1, Len(file) - 1)
    /\ UNCHANGED <<schedules, clock, second, pc, loopVars, execVars, reported,
                   checkVars>>

\* one of the files of Init: s1 and s2 one-time, s2 at 11:00
InitFileLoss ==
    /\ Init
    /\ \A i \in 1..Len(schedules) : ~schedules[i].is_recurring /\ ~schedules[i].auto_sequence
    /\ schedules[2].start_time = T1100

NextFileLoss ==
    \/ Next
    \/ DeleteFile
    \/ TruncateFile

SpecFileLoss == InitFileLoss /\ [][NextFileLoss]_vars

---------------------------------------------------------------------------
(* The scheduler and the executor with their own steps taken fairly: the   *)
(* loop polls (lines 1172-1229) and execute_schedule runs on (1236-1307)   *)
(* without waiting for anyone, while the operator's choices at the menu    *)
(* and the interrupt are the operator's to make or not                     *)

\* two of the files of Init: s1 and s2 one-time, s2 with auto_sequence
InitQueued ==
    /\ Init
    /\ \A i \in 1..Len(schedules) : ~schedules[i].is_recurring
    /\ schedules[2].auto_sequence

NextQueued ==
    \/ manual_schedule_run
    \/ ExecSaveRunning
    \/ ExecRunTerm
    \/ ExecFinish
    \/ start_scheduler
    \/ TickBegin
    \/ LoopIter
    \/ LoopSleep
    \/ InterruptLoop
    \/ InterruptBeforeTry
    \/ ClockAdvance

ProgramStep ==
    \/ ExecSaveRunning
    \/ ExecRunTerm
    \/ ExecFinish
    \/ TickBegin
    \/ LoopIter
    \/ LoopSleep

SpecQueued == InitQueued /\ [][NextQueued]_vars /\ WF_vars(ProgramStep)

---------------------------------------------------------------------------
(* The conflict detector on its own: a store and a candidate are drawn, and *)
(* check_schedule_conflicts is applied to them                              *)

T0900 == TimeStr(0, 9, 0, 0)
T0915 == TimeStr(0, 9, 1, 5)
T0930 == TimeStr(0, 9, 3, 0)

\* "9:00": accepted by validate_time_format, not what strftime prints
T900 == [hh |-> <<9>>, mm |-> <<0, 0>>]

CandidateTimes == {T0900, T900, T0915, T0930}

\* one search term with 100 or 250 contacts: estimates of 15 and 30 minutes
CandidateLimits == {100, 250}

Stored(id, name) ==
    { [Schedule(id, name, <<"t">>, start, 0, limit, FALSE, FALSE)
          EXCEPT !.is_active = active] :
      start \in CandidateTimes, limit \in CandidateLimits, active \in BOOLEAN }

ConflictStores ==
    {<<>>} \cup {<<x>> : x \in Stored("x", "X")}
           \cup {<<x, y>> : x \in Stored("x", "X"), y \in Stored("y", "Y")}

\* a schedule under construction (quick_schedule_setup lines 624-635, the
\* probe of is_time_slot_safe), or a schedule that is already in the store
Candidates(store) ==
    { Schedule("new", "New", <<"t">>, start, 0, limit, FALSE, FALSE) :
      start \in CandidateTimes, limit \in CandidateLimits }
    \cup {store[i] : i \in 1..Len(store)}

InitConflict ==
    /\ schedules \in ConflictStores
    /\ file = save_schedules(schedules)
    /\ file_state = "complete"
    /\ new_schedule \in Candidates(schedules)
    /\ conflicts = <<>>
    /\ returned = <<>>
    /\ clock = 600
    /\ second = 0
    /\ pc = "candidate"
    /\ IdleLoop
    /\ IdleExec
    /\ reported = <<>>

\* conflicts = self.check_schedule_conflicts(schedule), lines 638 / 774 / 1073
CheckConflicts ==
    /\ pc = "candidate"
    /\ conflicts' = check_schedule_conflicts(schedules, new_schedule)
    /\ pc' = "checked"
    /\ UNCHANGED <<second, schedules, file, file_state, clock, loopVars, execVars, reported,
                   new_schedule, returned>>

\* check_execution_overlap applied to a stored schedule and the candidate, in
\* the argument order of line 845 and in the opposite order
CheckOverlap ==
    /\ pc = "candidate"
    /\ \E i \in 1..Len(schedules) :
          returned' = [schedule1 |-> schedules[i],
                       schedule2 |-> new_schedule,
                       forth |-> check_execution_overlap(schedules[i], new_schedule),
                       back |-> check_execution_overlap(new_schedule, schedules[i])]
    /\ pc' = "overlap"
    /\ UNCHANGED <<second, schedules, file, file_state, clock, loopVars, execVars, reported,
                   new_schedule, conflicts>>

NextConflict ==
    \/ CheckConflicts
    \/ CheckOverlap

SpecConflict == InitConflict /\ [][NextConflict]_vars

---------------------------------------------------------------------------
(* The sequencer and the suggester on their own: a store, a candidate and    *)
(* the time of day are drawn, and calculate_sequential_time or               *)
(* get_safe_time_suggestions is applied to them                              *)

T0030 == TimeStr(0, 0, 3, 0)
T0800 == TimeStr(0, 8, 0, 0)
T2230 == TimeStr(2, 2, 3, 0)
T2245 == TimeStr(2, 2, 4, 5)
T2345 == TimeStr(2, 3, 4, 5)

SuggestStoredTimes == {T0030, T0900, T2230, T2345}

\* one search term with 100, 250 or 13750 contacts: estimates of 15 minutes,
\* 30 minutes and 23 hours
SuggestStoredLimits == {100, 250, 13750}

SuggestStored(id, name) ==
    { [Schedule(id, name, <<"t">>, start, 0, limit, FALSE, FALSE)
          EXCEPT !.is_active = active] :
      start \in SuggestStoredTimes, limit \in SuggestStoredLimits, active \in BOOLEAN }

\* no, one or two stored schedules; the store of X from 10:30 to 10:00 of
\* the next day (14050 contacts) and Y from 00:30 to 09:25 (5300 contacts),
\* which leave 00:00, 09:30 and 10:00 to a schedule of 15 minutes; and the
\* store of X from 09:00 to 09:45 (400 contacts)
SuggestStores ==
    {<<>>} \cup {<<x>> : x \in SuggestStored("x", "X")}
           \cup {<<x, y>> : x \in SuggestStored("x", "X"), y \in SuggestStored("y", "Y")}
           \cup {<< Schedule("x", "X", <<"t">>, T0900, 0, 400, FALSE, FALSE) >>}
           \cup {<< Schedule("x", "X", <<"t">>, TimeStr(1, 0, 3, 0), 0, 14050, FALSE, FALSE),
                    Schedule("y", "Y", <<"t">>, T0030, 0, 5300, FALSE, FALSE) >>}

\* the schedule under construction: quick_schedule_setup, lines 624-635
SuggestCandidates ==
    { Schedule("new", "New", <<"t">>, start, 0, limit, FALSE, FALSE) :
      start \in {T0900, TimeStr(1, 0, 3, 0), T2245}, limit \in CandidateLimits }

\* the time of day of the call: 06:55, 09:10, 09:30, 21:40
NowTimes == {415, 550, 570, 1300}

InitSuggest ==
    /\ schedules \in SuggestStores
    /\ file = save_schedules(schedules)
    /\ file_state = "complete"
    /\ new_schedule \in SuggestCandidates
    /\ conflicts = <<>>
    /\ returned = <<>>
    /\ clock \in NowTimes
    /\ second = 0
    /\ pc = "candidate"
    /\ IdleLoop
    /\ IdleExec
    /\ reported = <<>>

\* self.calculate_sequential_time(schedule), lines 657 / 663
SequentialTime ==
    /\ pc = "candidate"
    /\ returned' = calculate_sequential_time(schedules)
    /\ pc' = "sequenced"
    /\ UNCHANGED <<second, schedules, file, file_state, clock, loopVars, execVars, reported,
                   new_schedule, conflicts>>

\* SafeTimeSuggestions with the last probe of is_time_slot_safe put into the
\* store
SafeTimeSuggestionsKeepingProbe ==
    /\ pc = "candidate"
    /\ returned' = get_safe_time_suggestions(schedules, new_schedule, Now(clock))
    /\ schedules' = IF returned' = <<>> THEN schedules
                    ELSE DictSet(schedules,
                                 TempSchedule(returned'[Len(returned')], new_schedule))
    /\ pc' = "suggested"
    /\ UNCHANGED <<second, file, file_state, clock, loopVars, execVars, reported,
                   new_schedule, conflicts>>

\* self.get_safe_time_suggestions(schedule), line 650
SafeTimeSuggestions ==
    /\ pc = "candidate"
    /\ returned' = get_safe_time_suggestions(schedules, new_schedule, Now(clock))
    /\ pc' = "suggested"
    /\ UNCHANGED <<second, schedules, file, file_state, clock, loopVars, execVars, reported,
                   new_schedule, conflicts>>

\* lines 881-891: the three strategies of get_safe_time_suggestions, each as
\* called there
SuggestionStrategies ==
    /\ pc = "candidate"
    /\ LET conflicting_schedules == ConflictingSchedules(schedules, new_schedule)
       IN  returned' =
             [before |-> find_slots_before_conflicts(schedules, new_schedule,
                                                     conflicting_schedules, Now(clock)),
              after |-> find_slots_after_conflicts(schedules, new_schedule,
                                                   conflicting_schedules, Now(clock)),
              fallback |-> find_fallback_slots(schedules, new_schedule, Now(clock))]
    /\ pc' = "strategies"
    /\ UNCHANGED <<second, schedules, file, file_state, clock, loopVars, execVars,
                   reported, new_schedule, conflicts>>

NextSuggest ==
    \/ CheckConflicts
    \/ SequentialTime
    \/ SafeTimeSuggestions
    \/ SuggestionStrategies

SpecSuggest == InitSuggest /\ [][NextSuggest]_vars

---------------------------------------------------------------------------
(* The store and its file: schedules are created and imported from the menu, *)
(* a save can fail, the process can die and be started again                 *)

\* the store is not grown beyond MaxSchedules schedules
MaxSchedules == 2

\* the clock is not followed beyond second MaxSecond of its minute
MaxSecond == 1

\* int(time.time()), counted from today's midnight
UnixTime(minutes_today, s) == 60 * minutes_today + s

\* what a call of save_schedules can come to: the file written; open()
\* raising (the file is left alone); the write raising after open() has
\* emptied the file, caught by except Exception; Ctrl+C or the death of the
\* process at that point, which except Exception does not catch
SaveOutcomes == {"saved", "open failed", "write failed", "interrupted"}

\* the file after a call of save_schedules on store
Write(store, outcome) ==
    \/ /\ outcome = "saved"
       /\ file' = save_schedules(store)
       /\ file_state' = "complete"
    \/ /\ outcome = "open failed"
       /\ UNCHANGED <<file, file_state>>
    \/ /\ outcome \in {"write failed", "interrupted"}
       /\ file_state' = "partial"
       /\ file' = <<>>

\* the handler has changed the store to store, calls save_schedules and
\* waits at "Press Enter to continue..."
Commit(op, store, added, outcome) ==
    /\ Write(store, outcome)
    /\ schedules' = IF outcome = "interrupted" THEN <<>> ELSE store
    /\ pc' = IF outcome = "interrupted" THEN "dead" ELSE "prompt"
    /\ returned' = [op |-> op, save |-> outcome, added |-> added]

\* the handler returns without a call of save_schedules
NoSave(op, store, added) ==
    /\ schedules' = store
    /\ pc' = "prompt"
    /\ returned' = [op |-> op, save |-> "none", added |-> added]
    /\ UNCHANGED <<file, file_state>>

\* lines 639-698: the conflict resolution of quick_schedule_setup; <<>> when
\* the operator cancels, else the schedule to store.  time_choice is the
\* number typed, from 1
Resolve(store, schedule, now, choice, time_choice) ==
    LET safe_times == get_safe_time_suggestions(store, schedule, now)
    IN  IF check_schedule_conflicts(store, schedule) = <<>> THEN <<schedule>>
        ELSE IF choice = "1" /\ safe_times # <<>>
        THEN IF time_choice \in 1..Len(safe_times)
             THEN <<[schedule EXCEPT !.start_time = safe_times[time_choice]]>>
             ELSE <<[schedule EXCEPT !.start_time = calculate_sequential_time(store)]>>
        ELSE IF choice = "2"
        THEN IF calculate_sequential_time(store) # None
             THEN <<[schedule EXCEPT !.start_time = calculate_sequential_time(store)]>>
             ELSE <<schedule>>
        ELSE IF choice = "3" THEN <<[schedule EXCEPT !.auto_sequence = TRUE]>>
        ELSE IF choice = "4" THEN <<>>
        ELSE <<schedule>>

\* what the operator types
TermInputs == {<<>>, <<"t">>}
StartInputs == {T1000, T1100}
\* int(get_user_input("Contacts per search")): any integer is taken
LimitInputs == {100, 0 - 50}
Choices == {"1", "2", "3", "4", "x"}
TimeChoices == {1, 9}

\* quick_schedule_setup, lines 588-713
quick_schedule_setup ==
    /\ pc = "menu"
    /\ Len(schedules) < MaxSchedules
    /\ \E search_terms \in TermInputs, start_time \in StartInputs,
          limit \in LimitInputs, choice \in Choices, time_choice \in TimeChoices :
          LET schedule_id == "quick_" \o ToString(UnixTime(clock, second))
              schedule == Schedule(schedule_id, <<"Quick Schedule - ", start_time>>,
                                   search_terms, start_time, 0, limit, FALSE, FALSE)
              resolved == Resolve(schedules, schedule, Now(clock), choice, time_choice)
          IN  IF search_terms = <<>> \/ resolved = <<>>
              THEN NoSave("quick_schedule_setup", schedules, <<>>)
              ELSE \E outcome \in SaveOutcomes :
                      Commit("quick_schedule_setup", DictSet(schedules, resolved[1]),
                             <<schedule_id>>, outcome)
    /\ UNCHANGED <<clock, second, loopVars, execVars, reported, new_schedule,
                   conflicts>>

\* recurring_schedule_setup, lines 715-797
recurring_schedule_setup ==
    /\ pc = "menu"
    /\ Len(schedules) < MaxSchedules
    /\ \E search_terms \in TermInputs, start_time \in StartInputs,
          proceed \in BOOLEAN :
          LET schedule_id == "recurring_" \o ToString(UnixTime(clock, second))
              schedule == Schedule(schedule_id, <<"Recurring Schedule - ", start_time>>,
                                   search_terms, start_time, 60, 100, TRUE, FALSE)
          IN  IF \/ search_terms = <<>>
                 \/ (check_schedule_conflicts(schedules, schedule) # <<>> /\ ~proceed)
              THEN NoSave("recurring_schedule_setup", schedules, <<>>)
              ELSE \E outcome \in SaveOutcomes :
                      Commit("recurring_schedule_setup", DictSet(schedules, schedule),
                             <<schedule_id>>, outcome)
    /\ UNCHANGED <<clock, second, loopVars, execVars, reported, new_schedule,
                   conflicts>>

\* lines 1509-1516: the for loop of import_schedules, all of it within second
\* t; it ends at the first object Schedule(**schedule_data) raises on
RECURSIVE ImportFrom(_, _, _, _)
ImportFrom(schedules_data, store, t, added) ==
    IF schedules_data = <<>> THEN [store |-> store, added |-> added, failed |-> FALSE]
    ELSE IF ~ValidObject(Head(schedules_data))
    THEN [store |-> store, added |-> added, failed |-> TRUE]
    ELSE LET new_id == "imported_" \o ToString(t) \o "_" \o ToString(Len(added))
             schedule == [FromJsonObject(Head(schedules_data)) EXCEPT !.id = new_id]
         IN  ImportFrom(Tail(schedules_data), DictSet(store, schedule), t,
                        Append(added, new_id))

\* a file export_schedules has written: one schedule with every field
ExportedObject ==
    JsonObject(Schedule("quick_1", <<"Quick Schedule - ", T1100>>, <<"e">>, T1100,
                        0, 100, FALSE, FALSE))

\* the files the operator may name: none, an empty list, one exported
\* schedule, the same with its list of search terms emptied, two exported
\* schedules, and an exported schedule followed by an object with a key that
\* is no field of Schedule
ImportFiles ==
    { [exists |-> FALSE, data |-> <<>>],
      [exists |-> TRUE, data |-> <<>>],
      [exists |-> TRUE, data |-> <<ExportedObject>>],
      [exists |-> TRUE, data |-> <<[ExportedObject EXCEPT !.search_terms = <<>>]>>],
      [exists |-> TRUE, data |-> <<ExportedObject, ExportedObject>>],
      [exists |-> TRUE, data |-> <<ExportedObject, [comment |-> "x"]>>] }

\* import_schedules, lines 1496-1523
import_schedules ==
    /\ pc = "menu"
    /\ \E import_file \in ImportFiles :
          LET imported == ImportFrom(import_file.data, schedules,
                                     UnixTime(clock, second), <<>>)
          IN  /\ Len(schedules) + Len(import_file.data) <= MaxSchedules
              /\ IF ~import_file.exists
                 THEN NoSave("import_schedules", schedules, <<>>)
                 ELSE IF imported.failed
                 THEN NoSave("import_schedules", imported.store, imported.added)
                 ELSE \E outcome \in SaveOutcomes :
                         Commit("import_schedules", imported.store, imported.added,
                                outcome)
    /\ UNCHANGED <<clock, second, loopVars, execVars, reported, new_schedule,
                   conflicts>>

\* input("Press Enter to continue...") returns; the menu clears the screen
PressEnter ==
    /\ pc = "prompt"
    /\ pc' = "menu"
    /\ returned' = <<>>
    /\ UNCHANGED <<schedules, file, file_state, clock, second, loopVars, execVars,
                   reported, new_schedule, conflicts>>

\* a second passes
SecondPasses ==
    /\ second < MaxSecond
    /\ second' = second + 1
    /\ UNCHANGED <<schedules, file, file_state, clock, pc, loopVars, execVars,
                   reported, checkVars>>

\* the process starts over an empty store or over the file of one schedule
\* that an earlier session created and saved
InitStore ==
    /\ schedules \in { <<>>,
                       <<Schedule("quick_" \o ToString(UnixTime(600, 0) - 60),
                                  <<"Quick Schedule - ", T1000>>, <<"t">>, T1000,
                                  0, 100, FALSE, FALSE)>> }
    /\ file = save_schedules(schedules)
    /\ file_state = "complete"
    /\ clock = 600
    /\ second = 0
    /\ pc = "menu"
    /\ IdleLoop
    /\ IdleExec
    /\ reported = <<>>
    /\ new_schedule = <<>>
    /\ conflicts = <<>>
    /\ returned = <<>>

NextStore ==
    \/ quick_schedule_setup
    \/ recurring_schedule_setup
    \/ import_schedules
    \/ PressEnter
    \/ SecondPasses
    \/ Kill
    \/ Restart

SpecStore == InitStore /\ [][NextStore]_vars

---------------------------------------------------------------------------
(* Properties *)

InExecute == pc \in {"exec_pre", "exec_try"}

Running(store) == {i \in 1..Len(store) : store[i].currently_running}

\* C1: every step by which execute_schedule is left (completion or operator
\* interrupt; the death of the process is not a return) leaves the executed
\* schedule with currently_running = false, last_run = the completion time,
\* total_runs one higher than at the call, auto_sequence = false, and the
\* file holding the store with these values.
C1_EveryExitRestores ==
    [][(InExecute /\ pc' \notin {"exec_pre", "exec_try", "dead"}) =>
          LET before == Get(schedules, exec_id)
              after == Get(schedules', exec_id)
          IN  /\ ~after.currently_running
              /\ after.last_run = <<clock'>>
              /\ after.total_runs = before.total_runs + 1
              /\ ~after.auto_sequence
              /\ file' = save_schedules(schedules')]_vars

\* C2: a restart (a new process loading the file) yields a store in which no
\* schedule has currently_running = true.
C2_RestartClearsRunning ==
    [][(pc = "dead" /\ pc' = "menu") => Running(schedules') = {}]_vars

\* C3: in every reachable state at most one schedule has
\* currently_running = true.
C3_AtMostOneRunning == Cardinality(Running(schedules)) <= 1

\* C4: in a tick that found some active schedule currently_running at its
\* start, no loop iteration dispatches execute_schedule and none changes a
\* schedule, whatever the auto_sequence flag and the windows are.
C4_NoDispatchWhileRunning ==
    [][(pc = "iter" /\ running_schedules # <<>> /\ pc' # "dead") =>
          (pc' # "exec_pre" /\ exec_id' = "" /\ schedules' = schedules)]_vars

\* C4 witness: the loop has just queued a due schedule that has no
\* auto_sequence flag and whose window overlaps no running schedule's window.
C4_Witness ==
    /\ pc = "iter"
    /\ running_schedules # <<>>
    /\ status # <<>>
    /\ status[1] = "QUEUED"
    /\ LET s == Get(schedules, status[2])
       IN  /\ ~s.auto_sequence
           /\ run_type(s, current_time, clock) = "FIRST RUN"
           /\ \A k \in 1..Len(running_schedules) :
                 ~WindowsOverlap(s, Get(schedules, running_schedules[k]))

InLoop == pc \in {"tick", "iter"} \/ (InExecute /\ caller = "loop")

\* C5: while the loop runs, the clock does not leave the start minute of an
\* active never-run schedule unless a tick of the loop has read that minute.
C5_NoStartMinuteMissed ==
    [][(InLoop /\ pc' # "dead" /\ clock' # clock) =>
          \A k \in 1..Len(active_schedules) :
             LET s == Get(schedules, active_schedules[k])
             IN  (s.total_runs = 0 /\ s.start_time = strftime(clock))
                    => current_time = strftime(clock)]_vars

DueKinds == {"FIRST RUN", "RECURRING RUN", "WAITING", "QUEUED"}

\* C6: every loop iteration that examines a recurring schedule that has run
\* finds it due exactly if now >= last_run + duration_minutes (last run 10:00:
\* interval 60 is due at 11:00, interval 90 is not, both are due at 11:30);
\* a non-recurring schedule that has run is not found due.
C6_RecurringDueCheck ==
    [][(pc = "iter" /\ pc' \in {"iter", "exec_pre"}) =>
          LET s == Get(schedules, status'[2])
              due == status'[1] \in DueKinds
          IN  (~s.currently_running /\ s.last_run # <<>>) =>
                 /\ s.is_recurring =>
                       (due <=> clock >= s.last_run[1] + s.duration_minutes)
                 /\ ~s.is_recurring => ~due
                 /\ (s.is_recurring /\ s.last_run = <<600>> /\ clock = 660) =>
                       (due <=> s.duration_minutes = 60)
                 /\ (s.is_recurring /\ s.last_run = <<600>> /\ clock = 690) => due]_vars

\* C6 witness: both schedules recurring (60 and 90 minutes), both last run at
\* 10:00; at 11:00 the loop dispatches the first as a recurring run.
C6_Witness ==
    /\ pc = "exec_pre"
    /\ clock = 660
    /\ status = <<"RECURRING RUN", "s1">>
    /\ Len(schedules) = 2
    /\ schedules[1].last_run = <<600>> /\ schedules[1].duration_minutes = 60
    /\ schedules[2].last_run = <<600>> /\ schedules[2].duration_minutes = 90
    /\ schedules[2].is_recurring

Successes(invs) == Cardinality({k \in 1..Len(invs) : invs[k].ok})

\* C7: a run that reports its completion has invoked the runner once for each
\* term, in order, whatever failed; the reported success count is the number
\* of successful invocations; total_runs went up by one; is_active is as it
\* was.
C7_FailureDoesNotAbort ==
    [][(pc = "exec_try" /\ reported' # <<>>) =>
          LET before == Get(schedules, exec_id)
              after == Get(schedules', exec_id)
          IN  /\ [k \in 1..Len(invocations) |-> invocations[k].term]
                    = before.search_terms
              /\ reported'.success = Successes(invocations)
              /\ reported'.total = Len(before.search_terms)
              /\ after.total_runs = before.total_runs + 1
              /\ reported'.total_runs = after.total_runs
              /\ after.is_active = before.is_active]_vars

\* C7 witness: a completed run of three terms of which the first failed,
\* reported as 2/3.
C7_Witness ==
    /\ reported # <<>>
    /\ reported.results = <<FALSE, TRUE, TRUE>>
    /\ reported.success = 2
    /\ reported.total = 3
    /\ reported.total_runs = 1
    /\ \E i \in 1..Len(schedules) :
          /\ Len(schedules[i].search_terms) = 3
          /\ schedules[i].total_runs = 1
          /\ schedules[i].is_active

\* C8: check_schedule_conflicts returns an empty list exactly if no active
\* stored schedule has the candidate's start_time or a window
\* [start, start + estimated_duration_minutes) overlapping the candidate's;
\* every record it returns names an active schedule.
C8_EmptyIffNoActiveConflict ==
    pc = "checked" =>
        LET start(s) == strptime(s.start_time)
            end(s) == strptime(s.start_time) + s.estimated_duration_minutes
            overlaps(a, b) == \/ (start(a) <= start(b) /\ start(b) < end(a))
                              \/ (start(b) <= start(a) /\ start(a) < end(b))
        IN  /\ (conflicts = <<>>) <=>
                  ~\E i \in 1..Len(schedules) :
                      /\ schedules[i].is_active
                      /\ \/ schedules[i].start_time = new_schedule.start_time
                         \/ overlaps(schedules[i], new_schedule)
            /\ \A k \in 1..Len(conflicts) :
                  \E i \in 1..Len(schedules) :
                      schedules[i].is_active /\ schedules[i].name = conflicts[k].name

\* C8 witness: an empty result although an inactive schedule has the
\* candidate's start time, the only active schedule ending exactly where the
\* candidate starts.
C8_Witness ==
    /\ pc = "checked"
    /\ conflicts = <<>>
    /\ Len(schedules) = 2
    /\ ~schedules[1].is_active
    /\ schedules[1].start_time = new_schedule.start_time
    /\ schedules[2].is_active
    /\ strptime(schedules[2].start_time) + schedules[2].estimated_duration_minutes
          = strptime(new_schedule.start_time)

\* C9: when the candidate is itself an active entry of the store, no returned
\* record is about the candidate's own entry.
C9_NoSelfConflict ==
    (pc = "checked" /\ \E i \in 1..Len(schedules) :
                          schedules[i] = new_schedule /\ schedules[i].is_active)
        => \A k \in 1..Len(conflicts) : conflicts[k].name # new_schedule.name

\* C10: for each active stored schedule whose start_time equals the
\* candidate's (both estimates >= 1) the result holds exactly two records
\* about it: the direct time conflict, then the execution overlap.
C10_DirectAndOverlap ==
    pc = "checked" =>
        \A i \in 1..Len(schedules) :
            ( /\ schedules[i].is_active
              /\ schedules[i].start_time = new_schedule.start_time
              /\ schedules[i].estimated_duration_minutes >= 1
              /\ new_schedule.estimated_duration_minutes >= 1 )
            => LET about(r) == r.name = schedules[i].name
               IN  SelectSeq(conflicts, about) =
                      << [kind |-> "Direct time conflict", name |-> schedules[i].name],
                         [kind |-> "Execution overlap", name |-> schedules[i].name] >>

\* C10 witness: X active at 09:00 with an estimate of 30 minutes, a new
\* candidate also at 09:00: two records, both about X.
C10_Witness ==
    /\ pc = "checked"
    /\ Len(schedules) = 1
    /\ schedules[1].is_active
    /\ schedules[1].start_time = T0900
    /\ schedules[1].estimated_duration_minutes = 30
    /\ new_schedule.id = "new"
    /\ new_schedule.start_time = T0900
    /\ Len(conflicts) = 2

\* C11: check_execution_overlap reports an overlap for (A, B) exactly if it
\* reports one for (B, A), for schedules with valid start times.
C11_OverlapSymmetric ==
    ( /\ pc = "overlap"
      /\ validate_time_format(returned.schedule1.start_time)
      /\ validate_time_format(returned.schedule2.start_time) )
    => ((returned.forth # <<>>) <=> (returned.back # <<>>))

\* C11 witness: the first argument starts at 09:15, inside the second's
\* window 09:00-09:30; an overlap is reported in both argument orders.
C11_Witness ==
    /\ pc = "overlap"
    /\ returned.schedule1.start_time = T0915
    /\ returned.schedule1.estimated_duration_minutes = 15
    /\ returned.schedule2.start_time = T0900
    /\ returned.schedule2.estimated_duration_minutes = 30
    /\ returned.forth # <<>>
    /\ returned.back # <<>>

\* C12: when one schedule's window ends exactly where the other's starts
\* (start + estimate = the other start, the two starts differing), no overlap
\* is reported in either argument order.
C12_TouchingNeverOverlap ==
    pc = "overlap" =>
        LET a == returned.schedule1
            b == returned.schedule2
            touches(p, q) ==
                /\ strptime(p.start_time) + p.estimated_duration_minutes
                      = strptime(q.start_time)
                /\ strptime(q.start_time) # strptime(p.start_time)
        IN  (touches(a, b) \/ touches(b, a))
               => (returned.forth = <<>> /\ returned.back = <<>>)

\* C12 witness: a stored schedule at 09:00 with an estimate of 15 minutes and
\* a candidate at 09:15; no overlap either way.
C12_Witness ==
    /\ pc = "overlap"
    /\ returned.schedule1.start_time = T0900
    /\ returned.schedule1.estimated_duration_minutes = 15
    /\ returned.schedule2.start_time = T0915
    /\ returned.forth = <<>>
    /\ returned.back = <<>>

C14_RolloverTo0800 ==
    (pc = "sequenced" /\ ActiveIds(schedules) # <<>>) =>
        LET sum == SetMax(ActiveEnds(schedules)) + 10
        IN  IF sum >= 23 * 60
            THEN returned = T0800
            ELSE returned = strftime(sum) /\ strptime(returned) < 23 * 60

\* C15: every time get_safe_time_suggestions returns is conflict-free: a
\* probe schedule with that start time and the candidate's estimated duration
\* gets an empty list from check_schedule_conflicts, whichever strategy
\* produced the time.
C15_SuggestionsConflictFree ==
    pc = "suggested" =>
        \A k \in 1..Len(returned) :
            /\ check_schedule_conflicts(schedules,
                                        TempSchedule(returned[k], new_schedule)) = <<>>
            /\ \A i \in 1..Len(schedules) :
                  schedules[i].is_active =>
                     LET start == strptime(returned[k])
                         end == start + new_schedule.estimated_duration_minutes
                         start_i == strptime(schedules[i].start_time)
                         end_i == start_i + schedules[i].estimated_duration_minutes
                     IN  /\ schedules[i].start_time # returned[k]
                         /\ ~(start_i <= start /\ start < end_i)
                         /\ ~(start <= start_i /\ start_i < end)

\* C15 witness: X active at 09:00 for 15 minutes, a candidate of 30 minutes
\* at 09:00, the call made at 06:55: 09:30 comes from the after-conflicts
\* strategy, 07:30, 08:30 and 10:30 from the fallback strategy.
C15_Witness ==
    /\ pc = "suggested"
    /\ clock = 415
    /\ Len(schedules) = 1
    /\ schedules[1].is_active
    /\ schedules[1].start_time = T0900
    /\ schedules[1].estimated_duration_minutes = 15
    /\ new_schedule.start_time = T0900
    /\ new_schedule.estimated_duration_minutes = 30
    /\ find_slots_after_conflicts(schedules, new_schedule,
            ConflictingSchedules(schedules, new_schedule), Now(clock))
          = <<TimeStr(0, 9, 3, 0)>>
    /\ returned = <<TimeStr(0, 7, 3, 0), TimeStr(0, 8, 3, 0),
                    TimeStr(0, 9, 3, 0), TimeStr(1, 0, 3, 0)>>

\* C16: get_safe_time_suggestions returns at most 8 times and no time twice.
C16_AtMostEightDistinct ==
    pc = "suggested" =>
        /\ Len(returned) <= 8
        /\ \A i, j \in 1..Len(returned) : i # j => returned[i] # returned[j]

\* C16 witness: X active from 00:30 to 23:30, a candidate at 09:00: the
\* after-conflicts strategy walks through two days and finds 23:30 and 00:00
\* twice each; two suggestions are returned.
C16_Witness ==
    /\ pc = "suggested"
    /\ Len(schedules) = 1
    /\ schedules[1].is_active
    /\ schedules[1].start_time = T0030
    /\ schedules[1].estimated_duration_minutes = 23 * 60
    /\ new_schedule.start_time = T0900
    /\ find_slots_after_conflicts(schedules, new_schedule,
            ConflictingSchedules(schedules, new_schedule), Now(clock))
          = <<TimeStr(2, 3, 3, 0), TimeStr(0, 0, 0, 0),
              TimeStr(2, 3, 3, 0), TimeStr(0, 0, 0, 0)>>
    /\ Len(returned) = 2

\* C18: a new process that finds the file missing or cut short starts with an
\* empty store and reaches its menu; a step of the scheduler loop taken while
\* the file is missing or cut short is the step the loop takes otherwise: it
\* goes on over the schedules held in memory, none of which is dropped.
C18_LoadFailureNotFatal ==
    [][ /\ (pc = "dead" /\ pc' = "menu" /\ file_state # "complete")
            => schedules' = <<>>
        /\ (InLoop /\ file_state # "complete" /\ pc' # "dead")
            => /\ pc' \in {"tick", "iter", "exec_pre", "exec_try", "menu"}
               /\ Ids(schedules') = Ids(schedules)
               /\ pc' # "menu" => active_schedules' = active_schedules
               /\ (pc = "iter" /\ pc' # "menu" /\ <<pc, idx>>' # <<pc, idx>>
                       /\ idx <= Len(active_schedules))
                     => status' = <<Decision(schedules,
                                             Get(schedules, active_schedules[idx]),
                                             running_schedules, current_time, clock),
                                    active_schedules[idx]>> ]_vars

\* C18 witness: the file was deleted while the loop was running; the loop has
\* gone on and dispatched the schedule due at 10:00.
C18_Witness ==
    /\ pc = "exec_pre"
    /\ caller = "loop"
    /\ file_state = "missing"
    /\ status = <<"FIRST RUN", "s1">>
    /\ Len(schedules) = 2


\* C17: a save that fails or is interrupted leaves the file as the last
\* successful save wrote it: the step of a handler whose call of
\* save_schedules does not succeed changes neither the content of the file
\* nor its completeness.
C17_FailedSaveKeepsFile ==
    [][(/\ pc = "menu"
        /\ pc' \in {"prompt", "dead"}
        /\ returned' # <<>>
        /\ returned'.save \in {"open failed", "write failed", "interrupted"})
       => (file' = file /\ file_state' = file_state)]_vars

\* C19: whenever a step of the process has written the file with
\* save_schedules, load_schedules on that file yields the store the
\* process holds: the same schedules in the same order, every field equal.
C19_SaveLoadRoundTrip ==
    [][(file' # file /\ file_state' = "complete")
       => load_schedules(file_state', file', <<>>) = schedules']_vars

\* the file is the one save_schedules wrote for a store of two schedules, one
\* of which has run (last_run and total_runs set) and one of which has been
\* switched off, and it loads back to that store
C19_Witness ==
    /\ pc = "menu"
    /\ Len(schedules) = 2
    /\ \E i \in 1..2 : schedules[i].last_run # <<>> /\ schedules[i].total_runs > 0
    /\ \E i \in 1..2 : ~schedules[i].is_active
    /\ file_state = "complete"
    /\ file = save_schedules(schedules)
    /\ load_schedules(file_state, file, <<>>) = schedules

\* C20: a handler that adds schedules gives each an id that no schedule of
\* the store has, and the store grows by the number of schedules added with
\* the schedules it held left as they were.
C20_AddedIdsFresh ==
    [][(pc = "menu" /\ pc' = "prompt" /\ returned'.added # <<>>)
       => /\ \A k \in 1..Len(returned'.added) :
                returned'.added[k] \notin Ids(schedules)
          /\ Len(schedules') = Len(schedules) + Len(returned'.added)
          /\ \A i \in 1..Len(schedules) : schedules'[i] = schedules[i]]_vars

\* C21: every schedule of the store has a non-empty list of search terms,
\* whatever the operations that built the store.
C21_SearchTermsNonEmpty ==
    \A i \in 1..Len(schedules) : schedules[i].search_terms # <<>>

\* C22: every schedule of the store has an estimated duration of at least one
\* minute.
C22_EstimateAtLeastOne ==
    \A i \in 1..Len(schedules) : schedules[i].estimated_duration_minutes >= 1

\* C23: a handler that starts with the file equal to the store and ends with
\* no save of its own having failed leaves the file equal to the store, field
\* for field.
C23_FlushedAfterMutation ==
    [][(/\ pc = "menu"
        /\ pc' = "prompt"
        /\ file_state = "complete"
        /\ file = save_schedules(schedules)
        /\ returned'.save \in {"saved", "none"})
       => (file_state' = "complete" /\ file' = save_schedules(schedules'))]_vars

C26_DetectorsArePure ==
    [][(pc = "candidate" /\ pc' \in {"checked", "sequenced", "suggested", "strategies"})
       => /\ schedules' = schedules
          /\ new_schedule' = new_schedule
          /\ file' = file
          /\ file_state' = file_state]_vars

\* C26 witness: get_safe_time_suggestions has tested probes against a store
\* of two active schedules and returned three or more times; the store holds
\* no probe
C26_Witness ==
    /\ pc = "suggested"
    /\ Len(returned) >= 3
    /\ Len(schedules) = 2
    /\ \A i \in 1..2 : schedules[i].is_active /\ schedules[i].id # "temp"
    /\ new_schedule.id = "new"

\* C27: when the start times of an active stored schedule and of the
\* candidate are both accepted by validate_time_format and are the same time
\* of day, check_schedule_conflicts reports a direct time conflict with that
\* stored schedule.
C27_SameTimeIsDirectConflict ==
    pc = "checked" =>
        \A i \in 1..Len(schedules) :
            (/\ schedules[i].is_active
             /\ validate_time_format(schedules[i].start_time)
             /\ validate_time_format(new_schedule.start_time)
             /\ strptime(schedules[i].start_time) = strptime(new_schedule.start_time))
            => \E k \in 1..Len(conflicts) :
                  conflicts[k] = [kind |-> "Direct time conflict",
                                  name |-> schedules[i].name]

\* C28: the list get_safe_time_suggestions returns is ordered by
\* non-decreasing distance from the current time, the distance of a time being
\* the minutes between it and now, plus 30 when it is earlier than now.
C28_OrderedByDistance ==
    pc = "suggested" =>
        LET distance(t) == Abs(strptime(t) - clock)
                             + (IF strptime(t) < clock THEN 30 ELSE 0)
        IN  \A i, j \in 1..Len(returned) :
                i < j => distance(returned[i]) <= distance(returned[j])

\* C29: find_slots_after_conflicts returns at most 4 times, each on a
\* half-hour mark and none later than 22:00, in the order of the day (no
\* time is from beyond midnight).
C29_AfterSlotsWithinDay ==
    pc = "strategies" =>
        /\ Len(returned.after) <= 4
        /\ \A k \in 1..Len(returned.after) :
              /\ DigitsValue(returned.after[k].mm) \in {0, 30}
              /\ strptime(returned.after[k]) <= 22 * 60
        /\ \A j, k \in 1..Len(returned.after) :
              j < k => strptime(returned.after[j]) < strptime(returned.after[k])

\* C30: when the latest start that lets the candidate end 10 minutes before
\* the earliest conflicting schedule begins is more than 5 minutes from now,
\* and a half-hour mark between now and that latest start is conflict-free,
\* find_slots_before_conflicts returns between one and four times, each of
\* them conflict-free.
C30_BeforeSlotsWhenRoom ==
    pc = "strategies" =>
        LET conflicting == ConflictingSchedules(schedules, new_schedule)
            starts == { strptime(conflicting[i].start_time) :
                        i \in 1..Len(conflicting) }
            latest_start == SetMin(starts)
                              - (new_schedule.estimated_duration_minutes + 10)
            marks == { m \in clock..latest_start :
                       /\ m % 30 = 0
                       /\ is_time_slot_safe(schedules, strftime(m), new_schedule) }
        IN  (conflicting # <<>> /\ latest_start > clock + 5 /\ marks # {})
            => /\ Len(returned.before) \in 1..4
               /\ \A k \in 1..Len(returned.before) :
                     is_time_slot_safe(schedules, returned.before[k], new_schedule)

\* C24: once the loop has deferred a due schedule b with auto_sequence set
\* (WAITING) because schedule x was running, then from any later moment at
\* which x is no longer running, b is eventually executed.
C24_DeferredEventuallyExecuted ==
    \A b \in {"s1", "s2"}, x \in {"s1", "s2"} :
        []((/\ pc = "iter"
            /\ status = <<"WAITING", b>>
            /\ \E k \in 1..Len(running_schedules) : running_schedules[k] = x)
           => []((~Get(schedules, x).currently_running) => <>(exec_id = b)))

\* C31: get_safe_time_suggestions returns fallback slots only when the
\* before-slots and the after-slots are fewer than 3 together, and every time
\* find_fallback_slots returns is on a half-hour mark from 06:00 to 22:00.
C31_FallbackWithinHours ==
    /\ pc = "suggested" =>
          LET conflicting == ConflictingSchedules(schedules, new_schedule)
              found == find_slots_before_conflicts(schedules, new_schedule,
                                                   conflicting, Now(clock))
                       \o find_slots_after_conflicts(schedules, new_schedule,
                                                     conflicting, Now(clock))
          IN  Len(found) >= 3 =>
                 \A k \in 1..Len(returned) :
                    \E j \in 1..Len(found) : found[j] = returned[k]
    /\ pc = "strategies" =>
          \A k \in 1..Len(returned.fallback) :
             /\ DigitsValue(returned.fallback[k].mm) \in {0, 30}
             /\ strptime(returned.fallback[k]) >= 6 * 60
             /\ strptime(returned.fallback[k]) <= 22 * 60

\* C32: every time find_slots_after_conflicts returns is at least 10 minutes
\* after the latest window end among the conflicting schedules.
C32_AfterSlotsPastBuffer ==
    pc = "strategies" =>
        LET conflicting == ConflictingSchedules(schedules, new_schedule)
            ends == { strptime(conflicting[i].start_time)
                        + conflicting[i].estimated_duration_minutes :
                      i \in 1..Len(conflicting) }
        IN  conflicting # <<>> =>
               \A k \in 1..Len(returned.after) :
                  strptime(returned.after[k]) >= SetMax(ends) + 10

\* C33: when some conflict-free half-hour mark lies between the latest
\* conflicting window end plus 10 minutes and 22:00,
\* find_slots_after_conflicts returns at least one time.
C33_AfterSlotsFound ==
    pc = "strategies" =>
        LET conflicting == ConflictingSchedules(schedules, new_schedule)
            ends == { strptime(conflicting[i].start_time)
                        + conflicting[i].estimated_duration_minutes :
                      i \in 1..Len(conflicting) }
            marks == { m \in (SetMax(ends) + 10)..(22 * 60) :
                       /\ m % 30 = 0
                       /\ is_time_slot_safe(schedules, strftime(m), new_schedule) }
        IN  (conflicting # <<>> /\ marks # {}) => returned.after # <<>>

\* C34: a time returned by calculate_sequential_time is conflict-free: the
\* probe with that start time and the candidate's estimate has an empty
\* check_schedule_conflicts result.
C34_SequentialTimeIsSafe ==
    (pc = "sequenced" /\ returned # None)
        => is_time_slot_safe(schedules, returned, new_schedule)

\* C35: when check_schedule_conflicts is non-empty for a candidate whose
\* start time validates, calculate_sequential_time returns a time, not None.
C35_SequentialTimeNotNone ==
    (/\ pc = "sequenced"
     /\ validate_time_format(new_schedule.start_time)
     /\ check_schedule_conflicts(schedules, new_schedule) # <<>>)
        => (returned # None /\ validate_time_format(returned))

\* C35 witness: the candidate at 22:45 conflicts with the only active
\* schedule, whose window ends at 23:00 or later, and the sequencer has
\* answered with the rollover time
C35_Witness ==
    /\ pc = "sequenced"
    /\ new_schedule.start_time = T2245
    /\ check_schedule_conflicts(schedules, new_schedule) # <<>>
    /\ Cardinality({i \in 1..Len(schedules) : schedules[i].is_active}) = 1
    /\ returned = TimeStr(0, 8, 0, 0)

\* C36: the scheduler loop dispatches a non-recurring schedule only while its
\* total_runs is 0: once it has run, no tick dispatches it again, whether the
\* clock still reads its start_time or the process has been started anew.
C36_OneTimeRunsOnce ==
    [][(pc = "iter" /\ pc' = "exec_pre") =>
          LET s == Get(schedules, exec_id')
          IN  ~s.is_recurring => s.total_runs = 0]_vars

\* C36 witness: a tick that reads the start_time of a one-time schedule that
\* has run within this very minute has found it not due
C36_Witness ==
    /\ pc = "iter"
    /\ status # <<>>
    /\ status[1] = "NOT DUE"
    /\ LET s == Get(schedules, status[2])
       IN  /\ ~s.is_recurring
           /\ s.is_active
           /\ s.total_runs = 1
           /\ s.last_run = <<clock>>
           /\ s.start_time = current_time
           /\ current_time = strftime(clock)

\* C37: execute_schedule is entered, from the loop or from
\* manual_schedule_run, only for a schedule that is active at that moment,
\* and no step changes last_run or total_runs of a schedule that is inactive.
C37_OnlyActiveExecuted ==
    [][/\ (exec_id' # "" /\ exec_id' # exec_id)
             => Get(schedules, exec_id').is_active
       /\ Len(schedules') = Len(schedules)
             => \A i \in 1..Len(schedules) :
                   ~schedules[i].is_active
                      => /\ schedules'[i].last_run = schedules[i].last_run
                         /\ schedules'[i].total_runs = schedules[i].total_runs]_vars

\* C37 witness: the loop has dispatched an active schedule in a minute that
\* is also the start_time of a deactivated schedule that has never run
C37_Witness ==
    /\ pc = "exec_pre"
    /\ caller = "loop"
    /\ \E i \in 1..Len(schedules) :
          /\ ~schedules[i].is_active
          /\ schedules[i].total_runs = 0
          /\ schedules[i].last_run = <<>>
          /\ ~schedules[i].currently_running
          /\ schedules[i].start_time = current_time

\* C38: a step of execute_schedule changes nothing but currently_running,
\* last_run, total_runs and auto_sequence of the executed schedule and leaves
\* every other schedule as it was; no step of execute, edit or toggle changes
\* a schedule's id; and a start_time changes at the menu only to a time that
\* validates (an edit with an invalid time leaves it as it was).
C38_FrameOfOperations ==
    [][(pc # "dead" /\ pc' # "dead" /\ Len(schedules') = Len(schedules)) =>
          LET executed == IF exec_id' # "" THEN exec_id' ELSE exec_id
              rest(s) == [s EXCEPT !.currently_running = FALSE, !.last_run = <<>>,
                                   !.total_runs = 0, !.auto_sequence = FALSE]
          IN  \A i \in 1..Len(schedules) :
                 /\ schedules'[i].id = schedules[i].id
                 /\ executed # "" =>
                       IF schedules[i].id = executed
                       THEN rest(schedules'[i]) = rest(schedules[i])
                       ELSE schedules'[i] = schedules[i]
                 /\ (pc = "menu" /\ schedules'[i].start_time # schedules[i].start_time)
                       => validate_time_format(schedules'[i].start_time)]_vars

\* C38 witness: s1 has been executed to its end, and s2, whose start time was
\* edited from 11:00 to 10:00 and which was then deactivated, has not run
C38_Witness ==
    /\ pc = "menu"
    /\ reported # <<>>
    /\ Len(schedules) = 2
    /\ schedules[1].id = "s1" /\ schedules[2].id = "s2"
    /\ schedules[1].total_runs = 1 /\ schedules[1].last_run # <<>>
    /\ ~schedules[1].currently_running
    /\ schedules[2].start_time = T1000
    /\ ~schedules[2].is_active
    /\ schedules[2].total_runs = 0 /\ schedules[2].last_run = <<>>

====
